---- MODULE Spec2Model ----
(***************************************************************************)
(* Raw-transaction byte decoders of the repository:                        *)
(*   sv : split_and_verify/src/main.rs          Transaction::parse         *)
(*   v2 : transaction_splitter.v2/src/main.rs   parse_raw_components       *)
(* A decode is run step by step (one action per field group), over a       *)
(* byte buffer drawn from a bounded family of inputs.                      *)
(*                                                                         *)
(* usize/u64 values are kept with their width: a value is four 16-bit      *)
(* limbs <<l0,l1,l2,l3>>, little-endian (value = l0 + 2^16 l1 + ...).      *)
(* Strings produced by hex::encode / format!("{:02x}") are sequences of    *)
(* hex digits 0..15.                                                       *)
(***************************************************************************)
EXTENDS Integers, Sequences, FiniteSets, TLC

(* ---------------- bounds of the input family ---------------- *)
MaxInputs == 2
MaxOutputs == 1
MaxScript == 1
MaxItems == 2

(* ---------------- byte and width helpers ---------------- *)
Limb == 256 * 256

\* &data[a..b] of a slice that is in range (0-based, half open)
Slice(s, a, b) == SubSeq(s, a + 1, b)

RECURSIVE Flatten(_)
Flatten(ss) == IF ss = <<>> THEN <<>> ELSE Head(ss) \o Flatten(Tail(ss))

Rep(b, n) == [i \in 1..n |-> b]

Reverse(s) == [i \in 1..Len(s) |-> s[Len(s) + 1 - i]]

\* the bytes taken most significant first
from_be_bytes(bs) ==
    [k \in 1..4 |->
        IF 2 * k <= Len(bs)
        THEN bs[Len(bs) - 2 * k + 2] + 256 * bs[Len(bs) - 2 * k + 1] ELSE 0]

\* u16/u32/u64::from_le_bytes(..) as usize, on a 64-bit target
from_le_bytes(bs) ==
    [k \in 1..4 |->
        IF 2 * k <= Len(bs) THEN bs[2 * k - 1] + 256 * bs[2 * k] ELSE 0]

\* a byte as usize
ByteVal(b) == <<b, 0, 0, 0>>

\* values the model may turn into a loop bound or an offset
Small(v) == v[2] < 4096 /\ v[3] = 0 /\ v[4] = 0
ToNat(v) == v[1] + Limb * v[2]
FromNat(n) == <<n % Limb, n \div Limb, 0, 0>>

\* i < v for a small natural i and a 64-bit v (the test of `for _ in 0..v`)
LtNat(i, v) == IF Small(v) THEN i < ToNat(v) ELSE TRUE

\* usize addition index + needed: the 64-bit sum and whether it overflowed
AddUsize(i, v) ==
    LET s1 == v[1] + i
        c1 == s1 \div Limb
        s2 == v[2] + c1
        c2 == s2 \div Limb
        s3 == v[3] + c2
        c3 == s3 \div Limb
        s4 == v[4] + c3
    IN [sum |-> <<s1 % Limb, s2 % Limb, s3 % Limb, s4 % Limb>>,
        overflow |-> s4 >= Limb]

\* len < v for a natural len and a 64-bit v
LenLess(len, v) == IF Small(v) THEN len < ToNat(v) ELSE TRUE

\* n * size > isize::MAX, the condition of Vec::with_capacity's
\* "capacity overflow" panic (size < 2^15)
CapacityOverflow(v, size) ==
    LET p1 == v[1] * size
        p2 == v[2] * size + p1 \div Limb
        p3 == v[3] * size + p2 \div Limb
        p4 == v[4] * size + p3 \div Limb
    IN p4 >= 32768

\* hex::encode
HexEncode(bs) ==
    [i \in 1..(2 * Len(bs)) |->
        IF i % 2 = 1 THEN bs[(i + 1) \div 2] \div 16 ELSE bs[i \div 2] % 16]

\* hex digit j (0 = least significant) of a 64-bit value
Nibble(v, j) ==
    LET l == v[(j \div 4) + 1]
        k == j % 4
    IN (IF k = 0 THEN l ELSE IF k = 1 THEN l \div 16
        ELSE IF k = 2 THEN l \div 256 ELSE l \div 4096) % 16

\* format!("{:02x}", v): lower-case hex, no leading zeros, at least 2 digits
Format02x(v) ==
    LET top == IF \E j \in 0..15 : Nibble(v, j) # 0
               THEN CHOOSE j \in 0..15 :
                        /\ Nibble(v, j) # 0
                        /\ \A k \in (j + 1)..15 : Nibble(v, k) = 0
               ELSE 0
        n == IF top < 1 THEN 2 ELSE top + 1
    IN [i \in 1..n |-> Nibble(v, n - i)]


(* ---------------- values shared by both decoders ---------------- *)
None == <<>>
Some(x) == <<x>>

\* overflow checks on (debug) or off (release): `index + needed` panics or wraps
Builds == {"debug", "release"}

\* one read of n bytes at offset off, made for field f
Rd(f, off, n) == <<[f |-> f, off |-> off, n |-> n]>>

\* outcome of a sub-decoder: st is "ok", "err" (Err returned) or "panic"
R(st, idx, val, rds, msg) ==
    [st |-> st, index |-> idx, val |-> val, reads |-> rds, msg |-> msg]

\* the outcome r of a read, with the reads rds made before it
After(rds, r) == [r EXCEPT !.reads = rds \o r.reads]

\* &data[index..index+n]: the range check every slice expression makes
\* (an overflowing index + n panics with overflow checks and wraps to an end
\* before the start without them: out of range in both builds)
SliceInRange(data, index, n) ==
    LET a == AddUsize(index, n)
    IN ~a.overflow /\ ~LenLess(Len(data), a.sum)

(* ---------------- split_and_verify ---------------- *)
SizeOfInput == 120
SizeOfOutput == 72
SizeOfWitnessItem == 56

InsufficientData == "Insufficient data"
ExtraData == "Extra data after transaction"

\* check_remaining: "ok", "err", or "panic" when index + needed overflows
\* in a build with overflow checks; without them the sum wraps
check_remaining(data, index, needed, b) ==
    LET a == AddUsize(index, needed)
    IN IF a.overflow /\ b = "debug" THEN "panic"
       ELSE IF LenLess(Len(data), a.sum) THEN "err"
       ELSE "ok"

\* check_remaining(data, *index, n)?; &data[*index..*index+n]; *index += n
take(data, index, n, f, b) ==
    LET c == check_remaining(data, index, n, b)
    IN IF c = "panic" THEN R("panic", index, <<>>, <<>>, "attempt to add with overflow")
       ELSE IF c = "err" THEN R("err", index, <<>>, <<>>, InsufficientData)
       ELSE IF ~SliceInRange(data, index, n)
            THEN R("panic", index, <<>>, Rd(f, index, n), "slice index out of range")
       ELSE R("ok", index + ToNat(n), Slice(data, index, index + ToNat(n)),
              Rd(f, index, n), "")

read_segwit_marker(data, index, b) ==
    IF check_remaining(data, index, FromNat(2), b) # "ok"
    THEN R("ok", index, [marker |-> None, flag |-> None], <<>>, "")
    ELSE LET marker == data[index + 1]
             flag == data[index + 2]
             rds == Rd("marker", index, FromNat(1)) \o Rd("flag", index + 1, FromNat(1))
         IN IF marker = 0 /\ flag >= 1
            THEN R("ok", index + 2,
                   [marker |-> Some(Format02x(ByteVal(marker))),
                    flag |-> Some(Format02x(ByteVal(flag)))], rds, "")
            ELSE R("ok", index, [marker |-> None, flag |-> None], rds, "")

read_compact_size_part(data, index, bytes, b) ==
    LET t == take(data, index, FromNat(bytes), "compact_size", b)
    IN IF t.st # "ok" THEN t
       ELSE R("ok", t.index, from_le_bytes(t.val), t.reads, "")

read_compact_size(data, index, b) ==
    IF check_remaining(data, index, FromNat(1), b) # "ok"
    THEN R("err", index, <<>>, <<>>, InsufficientData)
    ELSE LET first == data[index + 1]
             rd == Rd("compact_size", index, FromNat(1))
             part == read_compact_size_part(data, index + 1,
                        IF first = 253 THEN 2 ELSE IF first = 254 THEN 4 ELSE 8, b)
         IN IF first <= 252 THEN R("ok", index + 1, ByteVal(first), rd, "")
            ELSE After(rd, part)


\* Vec::with_capacity(n) for elements of `size` bytes
with_capacity(n, size) == IF CapacityOverflow(n, size) THEN "panic" ELSE "ok"

\* A sub-decoder is a sequence of reads, each `?`-propagated: the first one
\* that fails ends it.  acc holds the cursor, the values read so far and the
\* reads made; t is the outcome of the next read.
Start(index) ==
    [st |-> "ok", index |-> index, vals |-> <<>>, reads |-> <<>>, msg |-> ""]

Bind(acc, t) ==
    [st |-> t.st, index |-> t.index,
     vals |-> IF t.st = "ok" THEN Append(acc.vals, t.val) ELSE acc.vals,
     reads |-> acc.reads \o t.reads, msg |-> t.msg]

Last(acc) == acc.vals[Len(acc.vals)]

\* the outcome of a finished sequence: Err/panic as it is, or Ok(val)
Finish(acc, val) ==
    IF acc.st # "ok" THEN R(acc.st, acc.index, <<>>, acc.reads, acc.msg)
    ELSE R("ok", acc.index, val, acc.reads, "")

ThenTake(acc, data, n, f, b) ==
    IF acc.st # "ok" THEN acc ELSE Bind(acc, take(data, acc.index, FromNat(n), f, b))

ThenCompactSize(acc, data, b) ==
    IF acc.st # "ok" THEN acc ELSE Bind(acc, read_compact_size(data, acc.index, b))

\* the bytes whose count is the size just read
ThenTakeSized(acc, data, f, b) ==
    IF acc.st # "ok" THEN acc ELSE Bind(acc, take(data, acc.index, Last(acc), f, b))

InputOf(acc) ==
    Finish(acc, IF acc.st # "ok" THEN <<>>
                ELSE [txid |-> HexEncode(acc.vals[1]),
                      vout |-> HexEncode(acc.vals[2]),
                      scriptsigsize |-> Format02x(acc.vals[3]),
                      scriptsig |-> HexEncode(acc.vals[4]),
                      sequence |-> HexEncode(acc.vals[5])])

read_input(data, index, b) ==
    InputOf(
      ThenTake(
        ThenTakeSized(
          ThenCompactSize(
            ThenTake(
              ThenTake(Start(index), data, 32, "txid", b),
              data, 4, "vout", b),
            data, b),
          data, "scriptsig", b),
        data, 4, "sequence", b))

OutputOf(acc) ==
    Finish(acc, IF acc.st # "ok" THEN <<>>
                ELSE [amount |-> HexEncode(acc.vals[1]),
                      scriptpubkeysize |-> Format02x(acc.vals[2]),
                      scriptpubkey |-> HexEncode(acc.vals[3])])

\* an output decoder that reads what the input decoder reads
read_output_as_input(data, index, b) == read_input(data, index, b)

\* an output decoder that refuses an amount with the top bit set
read_output_in_range(data, index, b) ==
    IF index + 8 <= Len(data) /\ data[index + 8] >= 128
    THEN R("err", index, <<>>, <<>>, "Amount out of range")
    ELSE OutputOf(
           ThenTakeSized(
             ThenCompactSize(
               ThenTake(Start(index), data, 8, "amount", b),
               data, b),
             data, "scriptpubkey", b))

read_output(data, index, b) ==
    OutputOf(
      ThenTakeSized(
        ThenCompactSize(
          ThenTake(Start(index), data, 8, "amount", b),
          data, b),
        data, "scriptpubkey", b))

\* a witness item that counts its position from 1
WitnessItemFromOne(acc, i) ==
    Finish(acc, IF acc.st # "ok" THEN <<>>
                ELSE [index |-> i + 1,
                      size |-> Format02x(acc.vals[1]),
                      item |-> HexEncode(acc.vals[2])])

WitnessItemOf(acc, i) ==
    Finish(acc, IF acc.st # "ok" THEN <<>>
                ELSE [index |-> i,
                      size |-> Format02x(acc.vals[1]),
                      item |-> HexEncode(acc.vals[2])])

\* one pass of the inner loop of read_witnesses: item i of the current stack
read_witness_item(data, index, i, b) ==
    WitnessItemOf(
      ThenTakeSized(ThenCompactSize(Start(index), data, b), data, "witness_item", b),
      i)

(* ---------------- transaction_splitter.v2 ---------------- *)
OffsetOutOfBounds == "Offset out of bounds"
NotEnoughBytes == "Not enough bytes for varint"

\* &bytes[cursor..cursor + n], with no check before it: out of range panics
index_range(bytes, cursor, n, f) ==
    IF SliceInRange(bytes, cursor, n)
    THEN R("ok", cursor + ToNat(n), Slice(bytes, cursor, cursor + ToNat(n)),
           Rd(f, cursor, n), "")
    ELSE R("panic", cursor, <<>>, Rd(f, cursor, n), "range end index out of range")

\* bytes[cursor]
index_byte(bytes, cursor, f) ==
    IF cursor < Len(bytes)
    THEN R("ok", cursor, bytes[cursor + 1], Rd(f, cursor, FromNat(1)), "")
    ELSE R("panic", cursor, 0, Rd(f, cursor, FromNat(1)), "index out of bounds")

\* read_varint: Ok((value, width)); the offset is not advanced here
read_varint(bytes, offset) ==
    IF offset >= Len(bytes) THEN R("err", offset, <<>>, <<>>, OffsetOutOfBounds)
    ELSE LET first_byte == bytes[offset + 1]
             rd == Rd("varint", offset, FromNat(1))
             w == IF first_byte = 253 THEN 3 ELSE IF first_byte = 254 THEN 5 ELSE 9
         IN IF first_byte <= 252
            THEN R("ok", offset, [value |-> ByteVal(first_byte), width |-> 1], rd, "")
            ELSE IF offset + w > Len(bytes)
            THEN R("err", offset, <<>>, rd, NotEnoughBytes)
            ELSE R("ok", offset,
                   [value |-> from_le_bytes(Slice(bytes, offset + 1, offset + w)),
                    width |-> w],
                   rd \o Rd("varint", offset + 1, FromNat(w - 1)), "")

\* the marker test of parse_raw_components; the flag byte is not looked at
MarkerOf(m, f, cursor) ==
    IF m.st # "ok" THEN m
    ELSE IF m.val # 0
         THEN R("ok", cursor, [has_witness |-> FALSE, marker |-> None, flag |-> None],
                m.reads, "")
    ELSE IF f.st # "ok" THEN After(m.reads, f)
    ELSE R("ok", cursor + 2,
           [has_witness |-> TRUE,
            marker |-> Some(Format02x(ByteVal(m.val))),
            flag |-> Some(Format02x(ByteVal(f.val)))],
           m.reads \o f.reads, "")

v2_marker(bytes, cursor) ==
    MarkerOf(index_byte(bytes, cursor, "marker"),
             index_byte(bytes, cursor + 1, "flag"), cursor)

\* a varint v read at the cursor, and the hex of its raw bytes: the cursor
\* moves by the varint's width
SizeOf(v, bytes, cursor, f) ==
    IF v.st # "ok" THEN v
    ELSE R("ok", cursor + v.val.width,
           [value |-> v.val.value,
            hex |-> HexEncode(Slice(bytes, cursor, cursor + v.val.width))],
           v.reads \o Rd(f, cursor, FromNat(v.val.width)), "")

v2_size(bytes, cursor, f) == SizeOf(read_varint(bytes, cursor), bytes, cursor, f)

ThenRange(acc, bytes, n, f) ==
    IF acc.st # "ok" THEN acc ELSE Bind(acc, index_range(bytes, acc.index, FromNat(n), f))

ThenSizeV2(acc, bytes, f) ==
    IF acc.st # "ok" THEN acc ELSE Bind(acc, v2_size(bytes, acc.index, f))

\* the bytes whose count is the varint just read
ThenRangeSized(acc, bytes, f) ==
    IF acc.st # "ok" THEN acc
    ELSE Bind(acc, index_range(bytes, acc.index, Last(acc).value, f))

RawInputOf(acc) ==
    Finish(acc, IF acc.st # "ok" THEN <<>>
                ELSE [txid |-> HexEncode(Reverse(acc.vals[1])),
                      vout |-> HexEncode(acc.vals[2]),
                      scriptsigsize |-> acc.vals[3].hex,
                      scriptsig |-> HexEncode(acc.vals[4]),
                      sequence |-> HexEncode(acc.vals[5])])

\* one pass of the input loop of parse_raw_components
v2_input(bytes, cursor) ==
    RawInputOf(
      ThenRange(
        ThenRangeSized(
          ThenSizeV2(
            ThenRange(
              ThenRange(Start(cursor), bytes, 32, "txid"),
              bytes, 4, "vout"),
            bytes, "scriptsig_size"),
          bytes, "scriptsig"),
        bytes, 4, "sequence"))

RawOutputOf(acc) ==
    Finish(acc, IF acc.st # "ok" THEN <<>>
                ELSE [amount |-> HexEncode(acc.vals[1]),
                      scriptpubkeysize |-> acc.vals[2].hex,
                      scriptpubkey |-> HexEncode(acc.vals[3])])

\* one pass of the output loop of parse_raw_components
v2_output(bytes, cursor) ==
    RawOutputOf(
      ThenRangeSized(
        ThenSizeV2(ThenRange(Start(cursor), bytes, 8, "amount"),
                   bytes, "scriptpubkey_size"),
        bytes, "scriptpubkey"))

\* the stack-items count v of one witness: the cursor moves by one byte
StackItemsOf(v, cursor) ==
    IF v.st # "ok" THEN v ELSE R("ok", cursor + 1, v.val.value, v.reads, "")

v2_stack_items(bytes, cursor) == StackItemsOf(read_varint(bytes, cursor), cursor)

\* the item that follows the varint v read at the cursor
ItemAfter(v, t) ==
    IF v.st # "ok" THEN v
    ELSE IF t.st # "ok" THEN After(v.reads, t)
    ELSE R("ok", t.index,
           [size |-> Format02x(v.val.value), item |-> HexEncode(t.val)],
           v.reads \o t.reads, "")

ItemOf(v, bytes, cursor) ==
    ItemAfter(v, IF v.st # "ok" THEN v
                 ELSE index_range(bytes, cursor + v.val.width, v.val.value,
                                  "witness_item"))

\* one pass of the item loop of a witness
v2_witness_item(bytes, cursor) == ItemOf(read_varint(bytes, cursor), bytes, cursor)

(* ---------------- the family of input buffers ---------------- *)
\* CompactSize encoding of a small n in w bytes; a value above 252 takes 3 bytes
\* where w asks for 1
EncCS(n, w) ==
    IF w = 1 /\ n <= 252 THEN <<n>>
    ELSE <<IF w <= 3 THEN 253 ELSE IF w = 5 THEN 254 ELSE 255>>
         \o <<n % 256, n \div 256>> \o Rep(0, w - 3)

\* canonical encodings of 252, 253, 65535, 65536, 2^32-1, 2^32 and 2^64-1
BigEncodings ==
    { <<252>>, <<253, 253, 0>>, <<253, 255, 255>>, <<254, 0, 0, 1, 0>>,
      <<254, 255, 255, 255, 255>>, <<255, 0, 0, 0, 0, 1, 0, 0, 0>>,
      <<255>> \o Rep(255, 8) }

Positions == {"incount", "scriptsig", "outcount", "scriptpubkey", "stack", "item"}

\* the size field at position pos of the transaction described by p
SizeField(p, pos, n) ==
    IF p.wide # pos THEN EncCS(n, 1)
    ELSE IF p.big # <<>> THEN p.big[1]
    ELSE EncCS(n, p.w)

VersionBytes == <<2, 0, 0, 0>>
LocktimeBytes == <<9, 1, 0, 0>>
TxidBytes(i) == [k \in 1..32 |-> 32 * i + k]
ScriptBytes(n) == [k \in 1..n |-> (160 + k) % 256]

InputBytes(p, i) ==
    TxidBytes(i) \o <<i, 0, 0, 0>> \o SizeField(p, "scriptsig", p.sl)
    \o ScriptBytes(p.sl) \o <<255, 255, 255, 254>>

\* the amount is 80 + j, or 2^64 - 1 (far above any amount of money there is)
\* in the transactions built with p.wide = "amount"
OutputBytes(p, j) ==
    (IF p.wide = "amount" THEN Rep(255, 8) ELSE <<80 + j, 0, 0, 0, 0, 0, 0, 0>>)
    \o SizeField(p, "scriptpubkey", p.sl)
    \o ScriptBytes(p.sl)

\* item k of the witness stack of input i
ItemData(p, i, k) == [x \in 1..p.sl |-> 48 + 8 * i + k]

ItemBytes(p, i, k) == SizeField(p, "item", p.sl) \o ItemData(p, i, k)

StackBytes(p, i) ==
    SizeField(p, "stack", p.nItems)
    \o Flatten([k \in 1..p.nItems |-> ItemBytes(p, i, k)])

TxBytes(p) ==
    VersionBytes
    \o (IF p.framing = "legacy" THEN <<>> ELSE <<0, p.flag>>)
    \o SizeField(p, "incount", p.nIn)
    \o Flatten([i \in 1..p.nIn |-> InputBytes(p, i)])
    \o SizeField(p, "outcount", p.nOut)
    \o Flatten([j \in 1..p.nOut |-> OutputBytes(p, j)])
    \o (IF p.framing = "legacy" THEN <<>>
        ELSE Flatten([i \in 1..p.nIn |-> StackBytes(p, i)]))
    \o LocktimeBytes

Shapes ==
    [framing : {"legacy"}, flag : {0}, nIn : 0..MaxInputs, nOut : 0..MaxOutputs,
     sl : {0, MaxScript}, nItems : {0}]
    \cup
    [framing : {"segwit"}, flag : {0, 1}, nIn : 0..MaxInputs, nOut : 0..MaxOutputs,
     sl : {0, MaxScript}, nItems : 0..MaxItems]

Plain(sh) ==
    [framing |-> sh.framing, flag |-> sh.flag, nIn |-> sh.nIn, nOut |-> sh.nOut,
     sl |-> sh.sl, nItems |-> sh.nItems, wide |-> "none", w |-> 1, big |-> <<>>]

\* the shape has a size field at position pos
Uses(sh, pos) ==
    CASE pos = "incount" -> TRUE
      [] pos = "outcount" -> TRUE
      [] pos = "scriptsig" -> sh.nIn > 0
      [] pos = "scriptpubkey" -> sh.nOut > 0
      [] pos = "stack" -> sh.framing = "segwit" /\ sh.nIn > 0
      [] pos = "item" -> sh.framing = "segwit" /\ sh.nIn > 0 /\ sh.nItems > 0

\* whole transactions, every size field in one byte
PlainTxs == {Plain(sh) : sh \in Shapes}

\* a legacy transaction whose scripts are 253 bytes long: the shortest length
\* whose canonical size prefix takes 3 bytes
LongTxs ==
    {Plain([framing |-> "legacy", flag |-> 0, nIn |-> 1, nOut |-> 1, sl |-> 253,
            nItems |-> 0])}

\* transactions with outputs whose amounts are 2^64 - 1, framed so that both
\* decoders read them as built
RichTxs ==
    {[Plain(sh) EXCEPT !.wide = "amount"] :
        sh \in {x \in Shapes : /\ x.nOut > 0 /\ x.nIn > 0
                                /\ (x.framing = "legacy" \/ x.flag = 1)}}

\* one size field encoded in 3, 5 or 9 bytes
WideTxs ==
    UNION {{[Plain(sh) EXCEPT !.wide = pos, !.w = w] :
                pos \in {x \in Positions : Uses(sh, x)}, w \in {3, 5, 9}} :
           sh \in Shapes}

\* one size field replaced by the encoding of a large value
BigTxs ==
    UNION {{[Plain(sh) EXCEPT !.wide = pos, !.big = <<e>>] :
                pos \in {x \in Positions : Uses(sh, x)}, e \in BigEncodings} :
           sh \in {x \in Shapes : x.sl = 0 /\ x.nOut = MaxOutputs /\ x.nItems \in {0, 1}}}

\* the transactions that are cut short at every byte boundary
CutTxs ==
    {Plain(sh) : sh \in {x \in Shapes : /\ x.nOut = MaxOutputs
                                        /\ (x.framing = "legacy" \/ x.flag = 1)
                                        /\ x.nItems \in {0, MaxItems}}}

Inputs ==
    {[kind |-> "whole", p |-> p, bytes |-> TxBytes(p)] :
        p \in PlainTxs \cup WideTxs \cup LongTxs \cup RichTxs}
    \cup
    {[kind |-> "big", p |-> p, bytes |-> TxBytes(p)] : p \in BigTxs}
    \cup
    {[kind |-> "extra", p |-> p, bytes |-> TxBytes(p) \o <<x>>] :
        p \in PlainTxs, x \in {0, 7}}
    \cup
    UNION {{[kind |-> "cut", p |-> p, bytes |-> SubSeq(TxBytes(p), 1, k)] :
                k \in 0..(Len(TxBytes(p)) - 1)} : p \in CutTxs}


(* ---------------- the decode as a state machine ---------------- *)
VARIABLES
    raw,      \* the byte buffer handed to the decoder
    origin,   \* how the buffer was built: [kind, p]
    impl,     \* "sv" (Transaction::parse) or "v2" (parse_raw_components)
    index,    \* the cursor: `index` in sv, `cursor` in v2
    pc,       \* the field group the decode is about to read
    tx,       \* the fields decoded so far
    lp,       \* the locals of the loops; entered_witness records that the
              \* witness decoder was entered
    ret,      \* what the call returned: [kind, msg, tx]
    reads     \* every read made so far: [f, off, n]

vars == <<raw, origin, impl, index, pc, tx, lp, ret, reads>>

Zero == ByteVal(0)

Init ==
    /\ \E i \in Inputs : raw = i.bytes /\ origin = [kind |-> i.kind, p |-> i.p]
    /\ impl \in {"sv", "v2"}
    /\ index = 0
    /\ pc = "version"
    /\ tx = [version |-> <<>>, marker |-> None, flag |-> None,
             inputcount |-> <<>>, inputs |-> <<>>,
             outputcount |-> <<>>, outputs |-> <<>>,
             witness |-> None, locktime |-> <<>>]
    /\ lp = [input_count |-> Zero, output_count |-> Zero, has_witness |-> FALSE,
             entered_witness |-> FALSE, witnesses |-> <<>>, in_stack |-> FALSE,
             stack_items |-> Zero, stackitems |-> <<>>, items |-> <<>>,
             i_in |-> 0, i_out |-> 0, i_wit |-> 0, i_item |-> 0]
    /\ ret = [kind |-> "none", msg |-> "", tx |-> None]
    /\ reads = <<>>

\* a call that ends in failure and hands back the fields decoded so far
HaltWithPartial(kind, msg, r) ==
    /\ pc' = "done"
    /\ ret' = [kind |-> kind, msg |-> msg, tx |-> Some(tx)]
    /\ index' = r.index
    /\ reads' = reads \o r.reads
    /\ UNCHANGED <<raw, origin, impl, tx, lp>>

\* a failure that, when a marker had been detected, starts over at the input
\* count under the legacy reading of the buffer
HaltOrReparse(kind, msg, r) ==
    IF tx.marker # None
    THEN /\ pc' = "incount"
         /\ index' = 4
         /\ tx' = [tx EXCEPT !.marker = None, !.flag = None, !.inputs = <<>>,
                              !.outputs = <<>>]
         /\ lp' = [lp EXCEPT !.has_witness = FALSE, !.in_stack = FALSE,
                              !.i_in = 0, !.i_out = 0, !.i_wit = 0, !.i_item = 0]
         /\ reads' = reads \o r.reads
         /\ UNCHANGED <<raw, origin, impl, ret>>
    ELSE /\ pc' = "done"
         /\ ret' = [kind |-> kind, msg |-> msg, tx |-> None]
         /\ index' = r.index
         /\ reads' = reads \o r.reads
         /\ UNCHANGED <<raw, origin, impl, tx, lp>>

\* the call ends without a value: Err(msg) returned, or a panic
Halt(kind, msg, r) ==
    /\ pc' = "done"
    /\ ret' = [kind |-> kind, msg |-> msg, tx |-> None]
    /\ index' = r.index
    /\ reads' = reads \o r.reads
    /\ UNCHANGED <<raw, origin, impl, tx, lp>>

\* the step r succeeded: the cursor moves, the locals change, the decode goes on
Go(r, next, tx1, lp1) ==
    /\ pc' = next
    /\ index' = r.index
    /\ reads' = reads \o r.reads
    /\ tx' = tx1
    /\ lp' = lp1
    /\ UNCHANGED <<raw, origin, impl, ret>>

\* a step with no read
Skip(next, tx1, lp1) ==
    /\ pc' = next
    /\ tx' = tx1
    /\ lp' = lp1
    /\ UNCHANGED <<raw, origin, impl, index, ret, reads>>

\* a push that drops a stack with no items
push_nonempty_witness(witnesses, w) ==
    IF w.items = <<>> THEN witnesses ELSE Append(witnesses, w)

\* witnesses.push(w)
push_witness(witnesses, w) == Append(witnesses, w)

(* ---- Transaction::parse ---- *)
\* the witness decoder entered whatever the marker step found
is_segwit_always(t) == TRUE

\* marker.is_some()
is_segwit(t) == t.marker # None

SV_Version ==
    /\ impl = "sv" /\ pc = "version"
    /\ \E b \in Builds :
        LET r == take(raw, index, FromNat(4), "version", b)
        IN IF r.st # "ok" THEN Halt(r.st, r.msg, r)
           ELSE Go(r, "marker", [tx EXCEPT !.version = HexEncode(r.val)], lp)

SV_Marker ==
    /\ impl = "sv" /\ pc = "marker"
    /\ \E b \in Builds :
        LET r == read_segwit_marker(raw, index, b)
        IN Go(r, "incount",
              [tx EXCEPT !.marker = r.val.marker, !.flag = r.val.flag], lp)

SV_InputCount ==
    /\ impl = "sv" /\ pc = "incount"
    /\ \E b \in Builds :
        LET r == read_compact_size(raw, index, b)
        IN IF r.st # "ok" THEN Halt(r.st, r.msg, r)
           ELSE IF with_capacity(r.val, SizeOfInput) = "panic"
                THEN Halt("panic", "capacity overflow", r)
           ELSE Go(r, "inputs", [tx EXCEPT !.inputcount = Format02x(r.val)],
                   [lp EXCEPT !.input_count = r.val])

SV_Input ==
    /\ impl = "sv" /\ pc = "inputs"
    /\ LtNat(lp.i_in, lp.input_count)
    /\ \E b \in Builds :
        LET r == read_input(raw, index, b)
        IN IF r.st # "ok" THEN Halt(r.st, r.msg, r)
           ELSE Go(r, "inputs", [tx EXCEPT !.inputs = Append(@, r.val)],
                   [lp EXCEPT !.i_in = @ + 1])

SV_OutputCount ==
    /\ impl = "sv" /\ pc = "inputs"
    /\ ~LtNat(lp.i_in, lp.input_count)
    /\ \E b \in Builds :
        LET r == read_compact_size(raw, index, b)
        IN IF r.st # "ok" THEN Halt(r.st, r.msg, r)
           ELSE IF with_capacity(r.val, SizeOfOutput) = "panic"
                THEN Halt("panic", "capacity overflow", r)
           ELSE Go(r, "outputs", [tx EXCEPT !.outputcount = Format02x(r.val)],
                   [lp EXCEPT !.output_count = r.val])

SV_Output ==
    /\ impl = "sv" /\ pc = "outputs"
    /\ LtNat(lp.i_out, lp.output_count)
    /\ \E b \in Builds :
        LET r == read_output(raw, index, b)
        IN IF r.st # "ok" THEN Halt(r.st, r.msg, r)
           ELSE Go(r, "outputs", [tx EXCEPT !.outputs = Append(@, r.val)],
                   [lp EXCEPT !.i_out = @ + 1])

\* `if marker.is_some()`: read_witnesses is entered, or witness = None
SV_OutputsDone ==
    /\ impl = "sv" /\ pc = "outputs"
    /\ ~LtNat(lp.i_out, lp.output_count)
    /\ IF is_segwit(tx)
       THEN Skip("witness", tx, [lp EXCEPT !.entered_witness = TRUE, !.witnesses = <<>>])
       ELSE Skip("locktime", [tx EXCEPT !.witness = None], lp)

\* read_witnesses, outer loop: the stack-items count of the next input
SV_WitnessStack ==
    /\ impl = "sv" /\ pc = "witness" /\ ~lp.in_stack
    /\ LtNat(lp.i_wit, lp.input_count)
    /\ \E b \in Builds :
        LET r == read_compact_size(raw, index, b)
        IN IF r.st # "ok" THEN Halt(r.st, r.msg, r)
           ELSE IF with_capacity(r.val, SizeOfWitnessItem) = "panic"
                THEN Halt("panic", "capacity overflow", r)
           ELSE Go(r, "witness", tx,
                   [lp EXCEPT !.in_stack = TRUE, !.stack_items = r.val,
                              !.stackitems = Format02x(r.val), !.items = <<>>,
                              !.i_item = 0])

\* read_witnesses, inner loop: one item
SV_WitnessItem ==
    /\ impl = "sv" /\ pc = "witness" /\ lp.in_stack
    /\ LtNat(lp.i_item, lp.stack_items)
    /\ \E b \in Builds :
        LET r == read_witness_item(raw, index, lp.i_item, b)
        IN IF r.st # "ok" THEN Halt(r.st, r.msg, r)
           ELSE Go(r, "witness", tx,
                   [lp EXCEPT !.items = Append(@, r.val), !.i_item = @ + 1])

\* read_witnesses: witnesses.push(Witness { stackitems, items })
SV_WitnessPush ==
    /\ impl = "sv" /\ pc = "witness" /\ lp.in_stack
    /\ ~LtNat(lp.i_item, lp.stack_items)
    /\ Skip("witness", tx,
            [lp EXCEPT !.in_stack = FALSE, !.i_wit = @ + 1,
                       !.witnesses = push_witness(@, [stackitems |-> lp.stackitems,
                                                      items |-> lp.items])])

\* read_witnesses returns Ok(witnesses)
SV_WitnessesDone ==
    /\ impl = "sv" /\ pc = "witness" /\ ~lp.in_stack
    /\ ~LtNat(lp.i_wit, lp.input_count)
    /\ Skip("locktime", [tx EXCEPT !.witness = Some(lp.witnesses)], lp)

\* locktime, the trailing-data test, and the return
SV_Locktime ==
    /\ impl = "sv" /\ pc = "locktime"
    /\ \E b \in Builds :
        LET r == take(raw, index, FromNat(4), "locktime", b)
            done == [tx EXCEPT !.locktime = HexEncode(r.val)]
        IN IF r.st # "ok" THEN Halt(r.st, r.msg, r)
           ELSE IF r.index # Len(raw) THEN Halt("err", ExtraData, r)
           ELSE /\ pc' = "done"
                /\ index' = r.index
                /\ reads' = reads \o r.reads
                /\ tx' = done
                /\ ret' = [kind |-> "ok", msg |-> "", tx |-> Some(done)]
                /\ UNCHANGED <<raw, origin, impl, lp>>


(* ---- parse_raw_components ---- *)
V2_Version ==
    /\ impl = "v2" /\ pc = "version"
    /\ LET r == index_range(raw, index, FromNat(4), "version")
       IN IF r.st # "ok" THEN Halt(r.st, r.msg, r)
          ELSE Go(r, "marker", [tx EXCEPT !.version = HexEncode(r.val)], lp)

V2_Marker ==
    /\ impl = "v2" /\ pc = "marker"
    /\ LET r == v2_marker(raw, index)
       IN IF r.st # "ok" THEN Halt(r.st, r.msg, r)
          ELSE Go(r, "incount",
                  [tx EXCEPT !.marker = r.val.marker, !.flag = r.val.flag],
                  [lp EXCEPT !.has_witness = r.val.has_witness])

V2_InputCount ==
    /\ impl = "v2" /\ pc = "incount"
    /\ LET r == v2_size(raw, index, "input_count")
       IN IF r.st # "ok" THEN Halt(r.st, r.msg, r)
          ELSE Go(r, "inputs", [tx EXCEPT !.inputcount = r.val.hex],
                  [lp EXCEPT !.input_count = r.val.value])

V2_Input ==
    /\ impl = "v2" /\ pc = "inputs"
    /\ LtNat(lp.i_in, lp.input_count)
    /\ LET r == v2_input(raw, index)
       IN IF r.st # "ok" THEN Halt(r.st, r.msg, r)
          ELSE Go(r, "inputs", [tx EXCEPT !.inputs = Append(@, r.val)],
                   [lp EXCEPT !.i_in = @ + 1])

V2_OutputCount ==
    /\ impl = "v2" /\ pc = "inputs"
    /\ ~LtNat(lp.i_in, lp.input_count)
    /\ LET r == v2_size(raw, index, "output_count")
       IN IF r.st # "ok" THEN Halt(r.st, r.msg, r)
          ELSE Go(r, "outputs", [tx EXCEPT !.outputcount = r.val.hex],
                  [lp EXCEPT !.output_count = r.val.value])

V2_Output ==
    /\ impl = "v2" /\ pc = "outputs"
    /\ LtNat(lp.i_out, lp.output_count)
    /\ LET r == v2_output(raw, index)
       IN IF r.st # "ok" THEN Halt(r.st, r.msg, r)
          ELSE Go(r, "outputs", [tx EXCEPT !.outputs = Append(@, r.val)],
                   [lp EXCEPT !.i_out = @ + 1])

\* `if has_witness`
V2_OutputsDone ==
    /\ impl = "v2" /\ pc = "outputs"
    /\ ~LtNat(lp.i_out, lp.output_count)
    /\ IF lp.has_witness
       THEN Skip("witness", tx, [lp EXCEPT !.entered_witness = TRUE])
       ELSE Skip("locktime", tx, lp)

V2_WitnessStack ==
    /\ impl = "v2" /\ pc = "witness" /\ ~lp.in_stack
    /\ LtNat(lp.i_wit, lp.input_count)
    /\ LET r == v2_stack_items(raw, index)
       IN IF r.st # "ok" THEN Halt(r.st, r.msg, r)
          ELSE Go(r, "witness", tx,
                  [lp EXCEPT !.in_stack = TRUE, !.stack_items = r.val,
                             !.stackitems = Format02x(r.val), !.items = <<>>,
                             !.i_item = 0])

V2_WitnessItem ==
    /\ impl = "v2" /\ pc = "witness" /\ lp.in_stack
    /\ LtNat(lp.i_item, lp.stack_items)
    /\ LET r == v2_witness_item(raw, index)
       IN IF r.st # "ok" THEN Halt(r.st, r.msg, r)
          ELSE Go(r, "witness", tx,
                   [lp EXCEPT !.items = Append(@, r.val), !.i_item = @ + 1])

\* witness.push(RawWitness { stack_items, items })
V2_WitnessPush ==
    /\ impl = "v2" /\ pc = "witness" /\ lp.in_stack
    /\ ~LtNat(lp.i_item, lp.stack_items)
    /\ Skip("witness",
            [tx EXCEPT !.witness = push_witness(@, [stackitems |-> lp.stackitems,
                                                    items |-> lp.items])],
            [lp EXCEPT !.in_stack = FALSE, !.i_wit = @ + 1])

V2_WitnessesDone ==
    /\ impl = "v2" /\ pc = "witness" /\ ~lp.in_stack
    /\ ~LtNat(lp.i_wit, lp.input_count)
    /\ Skip("locktime", tx, lp)

\* lock_time and the return: the cursor stays where it is and is compared
\* with nothing
V2_Locktime ==
    /\ impl = "v2" /\ pc = "locktime"
    /\ LET r == index_range(raw, index, FromNat(4), "locktime")
           done == [tx EXCEPT !.locktime = HexEncode(r.val)]
       IN IF r.st # "ok" THEN Halt(r.st, r.msg, r)
          ELSE /\ pc' = "done"
               /\ reads' = reads \o r.reads
               /\ tx' = done
               /\ ret' = [kind |-> "ok", msg |-> "", tx |-> Some(done)]
               /\ UNCHANGED <<raw, origin, impl, index, lp>>

Next ==
    \/ SV_Version \/ SV_Marker \/ SV_InputCount \/ SV_Input \/ SV_OutputCount
    \/ SV_Output \/ SV_OutputsDone \/ SV_WitnessStack \/ SV_WitnessItem
    \/ SV_WitnessPush \/ SV_WitnessesDone \/ SV_Locktime
    \/ V2_Version \/ V2_Marker \/ V2_InputCount \/ V2_Input \/ V2_OutputCount
    \/ V2_Output \/ V2_OutputsDone \/ V2_WitnessStack \/ V2_WitnessItem
    \/ V2_WitnessPush \/ V2_WitnessesDone \/ V2_Locktime

Spec == Init /\ [][Next]_vars

(* ---------------- properties ---------------- *)
Done == pc = "done"
Returned(kind) == Done /\ ret.kind = kind

\* the messages that report a buffer that ended too early
ShortReadMessages == {InsufficientData, OffsetOutOfBounds, NotEnoughBytes}

\* the end offset of a read that is within the values the model counts with
EndOf(rd) == rd.off + ToNat(rd.n)

\* the 4-byte locktime was read, and where that read ended
LocktimeRead ==
    /\ reads # <<>>
    /\ reads[Len(reads)].f = "locktime"
    /\ EndOf(reads[Len(reads)]) <= Len(raw)

\* C1: a well-formed transaction cut at a byte boundary before its end fails
\* with an insufficient-data / truncated-varint error: no panic, no Transaction.
C1_CutFailsWithShortRead ==
    (Done /\ origin.kind = "cut") =>
        /\ ret.kind = "err"
        /\ ret.msg \in ShortReadMessages
        /\ ret.tx = None

\* C2: once the locktime has been read, a cursor that is not at the end of the
\* buffer makes the decode fail with the trailing-data error and return no
\* Transaction (so a valid buffer with one byte appended is rejected).
C2_TrailingDataRejected ==
    (Done /\ LocktimeRead /\ EndOf(reads[Len(reads)]) # Len(raw)) =>
        /\ ret.kind = "err"
        /\ ret.msg = ExtraData
        /\ ret.tx = None

\* C3: whatever the buffer, a decode never ends in a crash: every failure is
\* an error value returned to the caller.
C3_NoCrash == ret.kind # "panic"

\* the CompactSize that holds the input count starts here
InputCountAt == IF tx.marker # None THEN 6 ELSE 4

\* the input count has just been decoded
AfterInputCount == pc = "inputs" /\ lp.i_in = 0

\* the buffer holds the bytes enc at offset o
HoldsAt(enc, o) ==
    /\ o + Len(enc) <= Len(raw)
    /\ \A k \in 1..Len(enc) : raw[o + k] = enc[k]

\* canonical encodings, the values they stand for (in 16-bit limbs, least
\* significant first) and their widths
CanonicalSizes ==
    { [enc |-> <<0>>, val |-> <<0, 0, 0, 0>>, width |-> 1],
      [enc |-> <<252>>, val |-> <<252, 0, 0, 0>>, width |-> 1],
      [enc |-> <<253, 253, 0>>, val |-> <<253, 0, 0, 0>>, width |-> 3],
      [enc |-> <<253, 255, 255>>, val |-> <<65535, 0, 0, 0>>, width |-> 3],
      [enc |-> <<254, 0, 0, 1, 0>>, val |-> <<0, 1, 0, 0>>, width |-> 5],
      [enc |-> <<254, 255, 255, 255, 255>>, val |-> <<65535, 65535, 0, 0>>, width |-> 5],
      [enc |-> <<255, 0, 0, 0, 0, 1, 0, 0, 0>>, val |-> <<0, 0, 1, 0>>, width |-> 9] }

\* byte k (0-based) after the prefix byte of the CompactSize at offset o, or 0
\* when the encoding is narrower
SizeByte(o, k, w) == IF k < w - 1 THEN raw[o + 2 + k] ELSE 0

\* C4: a first byte up to 0xfc is the value, in 1 byte; 0xfd, 0xfe and 0xff
\* announce 2, 4 and 8 little-endian bytes, 3, 5 and 9 bytes in all; the
\* canonical encodings of 0, 252, 253, 65535, 65536, 2^32-1 and 2^32 decode to
\* those values with widths 1, 1, 3, 3, 5, 5 and 9.
C4_CompactSizeDecoding ==
    AfterInputCount =>
        LET o == InputCountAt
            first == raw[o + 1]
            w == IF first <= 252 THEN 1 ELSE IF first = 253 THEN 3
                 ELSE IF first = 254 THEN 5 ELSE 9
        IN /\ index = o + w
           /\ first <= 252 => lp.input_count = <<first, 0, 0, 0>>
           /\ first > 252 =>
                \A l \in 1..4 :
                    lp.input_count[l] =
                        SizeByte(o, 2 * l - 2, w) + 256 * SizeByte(o, 2 * l - 1, w)
           /\ \A c \in CanonicalSizes :
                HoldsAt(c.enc, o) => lp.input_count = c.val /\ index = o + c.width

\* C4 witness: 2^32, in 9 bytes, has been decoded as an input count
C4_Witness ==
    /\ AfterInputCount
    /\ HoldsAt(<<255, 0, 0, 0, 0, 1, 0, 0, 0>>, InputCountAt)
    /\ lp.input_count = <<0, 0, 1, 0>>

\* the marker step has just been taken
AfterMarker == pc = "incount"

\* the two bytes after the version are 0x00 and a non-zero byte
MarkerAndFlag == Len(raw) >= 6 /\ raw[5] = 0 /\ raw[6] # 0

\* C5: the transaction is witness-carrying exactly when the byte after the
\* version is 0x00 and the next one is non-zero, and then the cursor moves by
\* 2; otherwise the cursor stays and no marker or flag is recorded.
C5_MarkerDetection ==
    AfterMarker =>
        IF MarkerAndFlag
        THEN tx.marker # None /\ tx.flag # None /\ index = 6
        ELSE tx.marker = None /\ tx.flag = None /\ index = 4

\* C6: with 0x00 0x00 after the version the buffer is not witness-carrying:
\* no marker or flag, no byte consumed by the marker step, no witness parsed.
C6_ZeroFlagIsLegacy ==
    (Len(raw) >= 6 /\ raw[5] = 0 /\ raw[6] = 0 /\ pc \notin {"version", "marker"}) =>
        /\ tx.marker = None /\ tx.flag = None
        /\ ~lp.entered_witness
        /\ \A i \in 1..Len(reads) :
              reads[i].f \in {"compact_size", "varint"} => reads[i].off # 6

\* C7: after every step the cursor is just past the last byte read (the two
\* bytes looked at by the marker test count only when they were a marker and
\* flag): a stack-item count of 3, 5 or 9 bytes moves it by that width.
C7_CursorFollowsReads ==
    (ret.kind = "none" /\ reads # <<>>) =>
        LET last == reads[Len(reads)]
        IN IF last.f \in {"marker", "flag"} /\ tx.marker = None
           THEN index = 4
           ELSE index = EndOf(last)

\* the witness stacks of the decoded transaction
Stacks == IF impl = "sv" THEN tx.witness[1] ELSE tx.witness

\* a whole witness-carrying transaction that the decoder frames as built
FramedAsBuilt ==
    /\ origin.kind = "whole"
    /\ origin.p.framing = "segwit" /\ origin.p.flag = 1
    /\ ~(impl = "v2" /\ origin.p.wide = "stack")

\* C8: a decoded witness-carrying transaction has as many witness stacks as
\* inputs, and stack i is the i-th of the witness section.
C8_StackPerInput ==
    (Returned("ok") /\ tx.marker # None) =>
        /\ Len(Stacks) = Len(tx.inputs)
        /\ FramedAsBuilt =>
              \A i \in 1..Len(Stacks) :
                  /\ Len(Stacks[i].items) = origin.p.nItems
                  /\ \A k \in 1..Len(Stacks[i].items) :
                        Stacks[i].items[k].item = HexEncode(ItemData(origin.p, i, k))

\* C8 witness: two inputs, each with its own non-empty stack
C8_Witness ==
    /\ Returned("ok") /\ tx.marker # None /\ FramedAsBuilt
    /\ Len(tx.inputs) = 2 /\ Len(Stacks) = 2
    /\ Stacks[1].items # <<>>
    /\ Stacks[1].items[1].item # Stacks[2].items[1].item

\* C9: the witness decoder runs exactly when the marker was detected, and the
\* result has a witness section exactly then.
C9_WitnessIffMarker ==
    /\ pc = "witness" => tx.marker # None
    /\ (pc = "locktime" \/ Returned("ok")) =>
          (lp.entered_witness <=> tx.marker # None)
    /\ (Returned("ok") /\ impl = "sv") => (tx.witness # None <=> tx.marker # None)

\* C9 witness: a decode with a marker, the witness decoder entered and a
\* witness section in the result
C9_Witness ==
    /\ Returned("ok") /\ impl = "sv"
    /\ tx.marker # None /\ tx.witness # None /\ lp.entered_witness

\* C10: every read of n bytes at offset i has i + n within the buffer.
C10_ReadsInBounds ==
    \A i \in 1..Len(reads) :
        Small(reads[i].n) /\ EndOf(reads[i]) <= Len(raw)

\* the field group the decode is about to read: pc, with the output count told
\* apart from the input loop it follows
StageOf(p, l) ==
    IF p = "inputs" /\ ~LtNat(l.i_in, l.input_count) THEN "outcount" ELSE p

\* the position of a field group in the wire order
StageRank(s) ==
    CASE s = "version" -> 0
      [] s = "marker" -> 1
      [] s = "incount" -> 2
      [] s = "inputs" -> 3
      [] s = "outcount" -> 4
      [] s = "outputs" -> 5
      [] s = "witness" -> 6
      [] s = "locktime" -> 7
      [] s = "done" -> 8

\* the reads that belong to a field group
StageFields(s) ==
    CASE s = "version" -> {"version"}
      [] s = "marker" -> {"marker", "flag"}
      [] s = "incount" -> {"compact_size", "varint", "input_count"}
      [] s = "inputs" -> {"txid", "vout", "compact_size", "varint",
                          "scriptsig_size", "scriptsig", "sequence"}
      [] s = "outcount" -> {"compact_size", "varint", "output_count"}
      [] s = "outputs" -> {"amount", "compact_size", "varint",
                           "scriptpubkey_size", "scriptpubkey"}
      [] s = "witness" -> {"compact_size", "varint", "witness_item"}
      [] s = "locktime" -> {"locktime"}
      [] s = "done" -> {}

\* C11: every step reads only fields of the group the decode has reached, the
\* groups follow each other in the order version, marker and flag, input
\* count, inputs, output count, outputs, witness stacks, locktime and never go
\* back, the witness stacks are reached only with a marker detected, and a
\* decode that returns a Transaction has read the locktime last.
C11_FieldOrder ==
    [][ /\ StageRank(StageOf(pc', lp')) >= StageRank(StageOf(pc, lp))
        /\ \A i \in (Len(reads) + 1)..Len(reads') :
              reads'[i].f \in StageFields(StageOf(pc, lp))
        /\ StageOf(pc', lp') = "witness" => tx'.marker # None
        /\ ret'.kind = "ok" =>
              /\ StageOf(pc, lp) = "locktime"
              /\ Len(reads') > Len(reads)
              /\ reads'[Len(reads')].f = "locktime" ]_vars

\* C11 witness: a witness-carrying transaction with two inputs, an output and
\* witness items decoded to the end, the locktime read last
C11_Witness ==
    /\ Returned("ok") /\ tx.marker # None
    /\ Len(tx.inputs) = 2 /\ Len(tx.outputs) = 1
    /\ \E i \in 1..Len(reads) : reads[i].f = "witness_item"
    /\ reads[Len(reads)].f = "locktime"
    /\ reads[1].f = "version"

\* the decoded fields of an input, and of an output, one after the other
InputFields(i) == i.txid \o i.vout \o i.scriptsigsize \o i.scriptsig \o i.sequence
OutputFields(o) == o.amount \o o.scriptpubkeysize \o o.scriptpubkey

\* the decoded fields of a legacy transaction in positional order
LegacyFields(t) ==
    t.version \o t.inputcount
    \o Flatten([i \in 1..Len(t.inputs) |-> InputFields(t.inputs[i])])
    \o t.outputcount
    \o Flatten([j \in 1..Len(t.outputs) |-> OutputFields(t.outputs[j])])
    \o t.locktime

\* a whole legacy transaction with inputs, every size in its canonical encoding
ValidLegacy ==
    /\ origin.kind = "whole" /\ origin.p.framing = "legacy"
    /\ origin.p.wide = "none" /\ origin.p.nIn > 0

\* C12: the decoded fields of a valid legacy transaction, concatenated in
\* positional order, are the bytes of the buffer.
C12_LegacyRoundTrip ==
    (Returned("ok") /\ ValidLegacy) => LegacyFields(tx) = HexEncode(raw)

\* a whole transaction, decoded with the framing it was built with, in which
\* the size field at one position was encoded in 3, 5 or 9 bytes and every
\* other size field in 1 byte
DecodedWide ==
    /\ Returned("ok") /\ origin.kind = "whole"
    /\ origin.p.wide # "none" /\ origin.p.w > 1
    /\ (tx.marker # None) <=> (origin.p.framing = "segwit")

\* C13: a size field holds the width of its encoding with its value: two size
\* fields that encode the same count, one in 1 byte and one in 3, 5 or 9, are
\* held as different fields (input count and output count, the script sizes of
\* an input and an output, a stack-item count and an item size).
C13_WidthRetained ==
    DecodedWide =>
        /\ (/\ origin.p.wide \in {"incount", "outcount"}
            /\ origin.p.nIn = origin.p.nOut
            /\ Len(tx.inputs) = origin.p.nIn /\ Len(tx.outputs) = origin.p.nOut)
              => tx.inputcount # tx.outputcount
        /\ (/\ origin.p.wide \in {"scriptsig", "scriptpubkey"}
            /\ tx.inputs # <<>> /\ tx.outputs # <<>>)
              => tx.inputs[1].scriptsigsize # tx.outputs[1].scriptpubkeysize
        /\ (/\ origin.p.wide \in {"stack", "item"}
            /\ origin.p.nItems = origin.p.sl
            /\ tx.marker # None /\ Stacks # <<>> /\ Stacks[1].items # <<>>)
              => Stacks[1].stackitems # Stacks[1].items[1].size

\* read i of the log reaches past the end of the buffer
ShortRead(i) == ~Small(reads[i].n) \/ EndOf(reads[i]) > Len(raw)

\* C14: a decode that fails returns the failure and nothing else (no
\* Transaction, none of the inputs, outputs or witness stacks decoded before
\* the failure), and it fails at the first read the buffer cannot supply: a
\* read that reaches past the end of the buffer is the last read made, and
\* every read before a failure lies within the buffer.
C14_FailureOnly ==
    /\ (Done /\ ret.kind # "ok") => ret.tx = None
    /\ ret.tx # None => (Returned("ok") /\ ret.tx = Some(tx))
    /\ \A i \in 1..Len(reads) :
          ShortRead(i) => (i = Len(reads) /\ Done /\ ret.kind # "ok")

\* C14 witness: the buffer ends inside the second input; the first input was
\* decoded whole, the second one's txid was read, and only the failure is
\* returned
C14_Witness ==
    /\ Done /\ ret.kind = "err" /\ ret.msg \in ShortReadMessages
    /\ origin.kind = "cut"
    /\ Len(tx.inputs) = 1
    /\ reads[Len(reads)].f \in {"txid", "vout"}
    /\ ret.tx = None

\* C15: a decode call that has ended has ended in one of three ways: with a
\* Transaction, with a bounds failure (insufficient data, truncated varint),
\* or with the trailing-data failure.
C15_ThreeOutcomes ==
    Done =>
        \/ ret.kind = "ok" /\ ret.tx # None
        \/ ret.kind = "err" /\ ret.msg \in ShortReadMessages /\ ret.tx = None
        \/ ret.kind = "err" /\ ret.msg = ExtraData /\ ret.tx = None

\* C16: a buffer of 0 to 3 bytes, too short for the version, fails before
\* anything is read, with an error that is not the one raised for short reads
\* inside the structure (nor the trailing-data one).
C16_ShortPreludeIsDistinct ==
    (Done /\ Len(raw) < 4) =>
        /\ ret.kind = "err" /\ ret.tx = None
        /\ ret.msg \notin ShortReadMessages \cup {ExtraData}
        /\ reads = <<>>

\* the offset at which the k-th input of the buffer was read: the offset of
\* the k-th txid read of the log
InputAt(k) ==
    LET i == CHOOSE j \in 1..Len(reads) :
                 /\ reads[j].f = "txid"
                 /\ Cardinality({x \in 1..j : reads[x].f = "txid"}) = k
    IN reads[i].off

\* the width and the value of the CompactSize at offset o (a value that fits
\* in two bytes: the length of a script the buffer holds)
WidthAt(o) ==
    IF raw[o + 1] <= 252 THEN 1 ELSE IF raw[o + 1] = 253 THEN 3
    ELSE IF raw[o + 1] = 254 THEN 5 ELSE 9
ValueAt(o) ==
    IF raw[o + 1] <= 252 THEN raw[o + 1] ELSE raw[o + 2] + 256 * raw[o + 3]

\* the decoded input inp is laid out at offset o as txid, vout, script length,
\* script, sequence; txid says what the txid field must hold
InputLaidOut(inp, o, txid) ==
    LET s == o + 36 + WidthAt(o + 36)
        e == s + ValueAt(o + 36)
    IN /\ inp.txid = txid
       /\ inp.vout = HexEncode(Slice(raw, o + 32, o + 36))
       /\ inp.scriptsig = HexEncode(Slice(raw, s, e))
       /\ inp.sequence = HexEncode(Slice(raw, e, e + 4))

\* C17: every decoded input is, in this order, 32 bytes of txid, 4 bytes of
\* vout, a CompactSize script length, that many script bytes and 4 bytes of
\* sequence; its txid field holds the 32 wire bytes in reversed order.
C17_InputLayout ==
    \A k \in 1..Len(tx.inputs) :
        InputLaidOut(tx.inputs[k], InputAt(k),
                     HexEncode(Reverse(Slice(raw, InputAt(k), InputAt(k) + 32))))

\* the offset at which the j-th output of the buffer was read: the offset of
\* the j-th amount read of the log
OutputAt(j) ==
    LET i == CHOOSE k \in 1..Len(reads) :
                 /\ reads[k].f = "amount"
                 /\ Cardinality({x \in 1..k : reads[x].f = "amount"}) = j
    IN reads[i].off

\* the number a string of hex digits stands for
RECURSIVE HexNumber(_)
HexNumber(ds) ==
    IF ds = <<>> THEN 0
    ELSE 16 * HexNumber(SubSeq(ds, 1, Len(ds) - 1)) + ds[Len(ds)]

\* byte k of a hex string
HexByte(ds, k) == 16 * ds[2 * k - 1] + ds[2 * k]

\* the value a held size field stands for: sv holds the value in hex, v2 the
\* hex of the CompactSize bytes
HeldSize(field) ==
    IF impl = "sv" THEN HexNumber(field)
    ELSE IF HexByte(field, 1) <= 252 THEN HexByte(field, 1)
    ELSE HexByte(field, 2) + 256 * HexByte(field, 3)

\* the decoded output out is laid out at offset o as amount, script length,
\* script
OutputLaidOut(out, o) ==
    LET s == o + 8 + WidthAt(o + 8)
        n == ValueAt(o + 8)
    IN /\ out.amount = HexEncode(Slice(raw, o, o + 8))
       /\ out.scriptpubkey = HexEncode(Slice(raw, s, s + n))
       /\ HeldSize(out.scriptpubkeysize) = n
       /\ Len(out.scriptpubkey) = 2 * HeldSize(out.scriptpubkeysize)

\* C18: every decoded output is 8 bytes of amount, a CompactSize script length
\* and exactly that many script bytes: its script is as long as its size field
\* says; the amount is taken as it is, whatever its value (a transaction whose
\* amounts are 2^64 - 1 is decoded like any other).
C18_OutputLayout ==
    /\ \A j \in 1..Len(tx.outputs) : OutputLaidOut(tx.outputs[j], OutputAt(j))
    /\ (Done /\ origin.kind = "whole" /\ origin.p.wide = "amount") =>
          /\ Returned("ok")
          /\ Len(tx.outputs) = origin.p.nOut

\* C18 witness: a decoded transaction whose output has a script of MaxScript
\* bytes and the amount 2^64 - 1
C18_Witness ==
    /\ Returned("ok") /\ origin.p.wide = "amount"
    /\ Len(tx.outputs) = 1
    /\ tx.outputs[1].amount = Rep(15, 16)
    /\ Len(tx.outputs[1].scriptpubkey) = 2 * MaxScript

\* the witness stacks pushed so far
Pushed == IF impl = "sv" THEN lp.witnesses ELSE tx.witness

\* the stack-item count of the current input has been read, and is 0
ZeroCountRead == pc = "witness" /\ lp.in_stack /\ lp.stack_items = Zero

\* C19: in a witness-carrying transaction an input whose stack-item count is 0
\* consumes nothing past the bytes of the count, and gets a witness stack of
\* its own with zero items: the witness section has one entry per input read.
C19_EmptyStack ==
    /\ ZeroCountRead =>
          /\ tx.marker # None
          /\ lp.items = <<>>
          /\ reads[Len(reads)].f \in {"compact_size", "varint"}
          /\ index <= EndOf(reads[Len(reads)])
    /\ pc = "witness" =>
          /\ Len(Pushed) = lp.i_wit
          /\ \A i \in 1..Len(Pushed) :
                Pushed[i].stackitems = Format02x(Zero) => Pushed[i].items = <<>>

\* C19 witness: a decoded witness-carrying transaction with two inputs, each
\* with a stack of its own that has no items
C19_Witness ==
    /\ Returned("ok") /\ tx.marker # None
    /\ Len(tx.inputs) = 2 /\ Len(Stacks) = 2
    /\ \A i \in 1..2 :
          Stacks[i].stackitems = Format02x(Zero) /\ Stacks[i].items = <<>>

\* the decision and the cursor after the marker test of each decoder
DetectsSV(b) == read_segwit_marker(raw, index, b)
DetectsV2 == v2_marker(raw, index)

\* C20: on the two bytes that follow the version, the marker test of
\* Transaction::parse and the one of parse_raw_components decide alike
\* (legacy or witness-carrying) and move the cursor by the same number of
\* bytes.
C20_SameDetection ==
    (pc = "marker" /\ Len(raw) >= index + 2) =>
        \A b \in Builds :
            /\ (DetectsSV(b).val.marker # None) <=> DetectsV2.val.has_witness
            /\ DetectsSV(b).index = DetectsV2.index

\* a buffer built as a legacy transaction with no inputs, whose two bytes after
\* the version are the input count 0x00 and a non-zero byte of the output
\* count, and whose decode is past the marker step
ZeroInputLegacy ==
    /\ origin.p.framing = "legacy" /\ origin.p.nIn = 0
    /\ Len(raw) >= 6 /\ raw[5] = 0 /\ raw[6] # 0
    /\ pc \notin {"version", "marker"}

\* C21: a legacy encoding with input count 0 followed by a non-zero byte of
\* the output count is taken as witness-carrying, with marker 0x00 and that
\* byte as the flag, and stays so: the cursor never returns before offset 6,
\* nothing is read again from the bytes of the marker and flag, and the marker
\* is still recorded when the decode has failed.
C21_SniffTrusted ==
    ZeroInputLegacy =>
        /\ tx.marker = Some(Format02x(ByteVal(0)))
        /\ tx.flag = Some(Format02x(ByteVal(raw[6])))
        /\ index >= 6
        /\ \A i \in 1..Len(reads) :
              reads[i].f \notin {"version", "marker", "flag"} => reads[i].off >= 6
        /\ Cardinality({i \in 1..Len(reads) : reads[i].f = "version"}) = 1

\* C21 witness: the decode of a whole legacy transaction with no inputs and an
\* output has failed under the witness reading, the first byte of the amount
\* taken as the input count
C21_Witness ==
    /\ ZeroInputLegacy /\ origin.kind = "whole" /\ origin.p.nOut > 0
    /\ Done /\ ret.kind # "ok"
    /\ tx.marker # None
    /\ lp.input_count = ByteVal(raw[7])

\* the framing decided by the marker step
Framing == <<tx.marker, tx.flag, lp.has_witness>>

\* C22: in every step of a decode the cursor stays or moves forward, and once
\* the marker step has been taken the framing it decided (marker, flag,
\* witness or not) is the same after every later step.
C22_SinglePass ==
    [][ /\ index' >= index
        /\ pc \notin {"version", "marker"} => Framing' = Framing ]_vars

\* C22 witness: a witness-carrying transaction decoded to its last byte, items
\* of the first stack included, with the marker decided at the start
C22_Witness ==
    /\ Returned("ok") /\ tx.marker # None
    /\ index = Len(raw) /\ index > 6
    /\ Len(reads) >= 10
    /\ Stacks # <<>> /\ Stacks[1].items # <<>>

\* the items of a stack are as many as its stack-item count says, and an item
\* that carries an index (sv's WitnessItem; v2's RawWitnessItem has no such
\* field) carries its position in the stack, counted from 0
StackMatches(w) ==
    /\ Len(w.items) = HexNumber(w.stackitems)
    /\ impl = "sv" => \A k \in 1..Len(w.items) : w.items[k].index = k - 1

\* C23: a decoded transaction has as many inputs as its decoded input count
\* and as many outputs as its decoded output count (the count the loop ran to,
\* and the count field it holds); each of its witness stacks has as many items
\* as its stack-item count, the item at position k (from 0) carrying index k.
C23_CountsMatch ==
    Returned("ok") =>
        /\ Small(lp.input_count) /\ Len(tx.inputs) = ToNat(lp.input_count)
        /\ Len(tx.inputs) = HeldSize(tx.inputcount)
        /\ Small(lp.output_count) /\ Len(tx.outputs) = ToNat(lp.output_count)
        /\ Len(tx.outputs) = HeldSize(tx.outputcount)
        /\ tx.marker # None => \A i \in 1..Len(Stacks) : StackMatches(Stacks[i])

\* C23 witness: two inputs, an output and, for the first input, a stack of
\* MaxItems items indexed from 0 to MaxItems - 1
C23_Witness ==
    /\ Returned("ok") /\ impl = "sv" /\ tx.marker # None
    /\ Len(tx.inputs) = 2 /\ tx.inputcount = Format02x(ByteVal(2))
    /\ Len(tx.outputs) = 1
    /\ Len(Stacks[1].items) = MaxItems
    /\ Stacks[1].items[MaxItems].index = MaxItems - 1

====
